---------------------------- MODULE Spec2Model ----------------------------
(***************************************************************************)
(* The outreach backend of src/main.py as a state machine.                 *)
(*                                                                         *)
(* The document store is modelled by its four collections that the         *)
(* handlers and the automation engine write: company, template, prospect   *)
(* and messagelog.  A collection that is scanned by find() is a sequence   *)
(* in insertion order (documents are never deleted, so the natural order   *)
(* of a scan is the insertion order); a document's _id is its position.    *)
(* messagelog is only ever inserted into and is kept as a bag of records.  *)
(*                                                                         *)
(* datetime.now(timezone.utc) is the variable now, a clock the environment *)
(* advances between any two steps (unit: one day).                         *)
(*                                                                         *)
(* A handler is one action.  process_automation runs as a background task, *)
(* concurrently with the handlers and with other runs, so it is modelled   *)
(* one database call per step.  update_one(..., upsert=True) on a          *)
(* collection without a unique index is, in the store, a match followed    *)
(* by an insert when nothing matched; these are two steps.                 *)
(*                                                                         *)
(* Five specifications share the actions.  Spec runs the two background    *)
(* tasks of Runs concurrently, and lets them fail, over a small store.     *)
(* SpecApi calls the handlers on varied inputs between runs.  SpecRun lets *)
(* the runs go one at a time while the clock advances at any step, and     *)
(* keeps their history.  SpecCap gives one campaign more prospects than a  *)
(* run may process.  SpecTemplates overlaps upserts of templates.          *)
(*                                                                         *)
(* Not modelled: the campaign collection, the rendered message text        *)
(* (render_template), generated names, linkedin_url, created_at and        *)
(* updated_at of companies and prospects, scheduled_at and sent_at.        *)
(***************************************************************************)
EXTENDS Integers, Sequences, FiniteSets, Bags, TLC

VARIABLES
    now,             \* datetime.now(timezone.utc), in days
    company,         \* db["company"]
    template,        \* db["template"]
    prospect,        \* db["prospect"]
    messagelog,      \* db["messagelog"]
    upserting,       \* update_one(upsert=True) calls that matched nothing and have not inserted yet
    response,        \* what the last handler returned
    pc,              \* per background task: position in process_automation
    campaign_id,     \* per background task: the argument of process_automation
    daily_limit,     \* per background task: local daily_limit
    processed,       \* per background task: local processed
    cursor,          \* per background task: documents left in the cursor being iterated
    run_start,       \* history: pending prospects and messagelog when the run started
    advanced         \* history: prospects the run moved from pending to requested

vars == <<now, company, template, prospect, messagelog, upserting, response,
          pc, campaign_id, daily_limit, processed, cursor,
          run_start, advanced>>

dbvars == <<company, template, prospect, messagelog, upserting>>
runvars == <<pc, campaign_id, daily_limit, processed, cursor>>
histvars == <<run_start, advanced>>

-----------------------------------------------------------------------------
(* Bounds of the model *)

MaxTime == 3
MaxCompanies == 1
MaxProspects == 2
ApiCompanies == 2
ApiProspects == 4
RunProspects == 4
MaxUpserts == 2
CapCompanies == 6

(* Input alphabets *)

Campaigns == {"c1", "c2"}
CompanyNames == {"Acme", "Globex"}
JobTitles == {"CEO", "CTO"}
ContentTypes == {"text/csv", "image/png"}
Runs == {1, 2}

(* Program constants *)

DAILY_LIMIT_MIN == 10
DAILY_LIMIT_MAX == 20
FOLLOWUP_DAYS == 3
PROSPECTS_PER_COMPANY == 2

None == -1
NoCampaign == "none"

-----------------------------------------------------------------------------
(* Helpers *)

\* str(p["_id"]): the string form of an identifier
Str(id) == <<"oid", id>>

\* the _id values of a sequence collection, in natural order
Ids(coll) == [i \in 1 .. Len(coll) |-> i]

\* Limit without the cap
LimitNone(s, n) == s

\* cursor.limit(n)
Limit(s, n) == IF Len(s) <= n THEN s ELSE SubSeq(s, 1, n)

\* the accepted content types of an upload
CsvTypes == {"text/csv", "application/vnd.ms-excel", "application/csv"}

\* CompaniesOf without the campaign filter
CompaniesOfAny(c) == Ids(company)

\* db["company"].find({"campaign_id": c})
CompaniesOf(c) ==
    SelectSeq(Ids(company), LAMBDA i : company[i].campaign_id = c)

\* db["template"].find({"campaign_id": c}), whose first element find_one returns
TemplatesOf(c) ==
    SelectSeq(Ids(template), LAMBDA i : template[i].campaign_id = c)

\* db["prospect"].count_documents({"campaign_id": c})
CountAll(c) ==
    Cardinality({i \in 1 .. Len(prospect) : prospect[i].campaign_id = c})

\* CountStatus without the campaign filter
CountStatusAnyCampaign(c, st) ==
    Cardinality({i \in 1 .. Len(prospect) : prospect[i].status = st})

\* db["prospect"].count_documents({"campaign_id": c, "status": st})
CountStatus(c, st) ==
    Cardinality({i \in 1 .. Len(prospect) :
                    prospect[i].campaign_id = c /\ prospect[i].status = st})

\* the document search_and_create_prospects inserts for one company
NewProspect(c, name, q) ==
    [campaign_id |-> c, company_name |-> name, job_title |-> q,
     status |-> "pending", last_action_at |-> None]

\* NewProspects with one prospect per company
NewProspectsOnePerCompany(c, q) ==
    LET cs == CompaniesOf(c)
    IN  [k \in 1 .. Len(cs) |-> NewProspect(c, company[cs[k]].company_name, q)]

\* the documents search_and_create_prospects inserts: two per company, in order
NewProspects(c, q) ==
    LET cs == CompaniesOf(c)
    IN  [k \in 1 .. PROSPECTS_PER_COMPANY * Len(cs) |->
            NewProspect(c,
                        company[cs[(k + PROSPECTS_PER_COMPANY - 1)
                                       \div PROSPECTS_PER_COMPANY]].company_name,
                        q)]

\* the body campaign_stats returns
StatsOf(c) ==
    [total |-> CountAll(c),
     requests_sent |-> CountStatus(c, "requested"),
     followups_sent |-> CountStatus(c, "followed_up"),
     connections_accepted |-> CountStatus(c, "accepted"),
     replies_received |-> CountStatus(c, "replied"),
     pending |-> CountStatus(c, "pending")]

\* random.randint(10, 20)
DailyLimits == DAILY_LIMIT_MIN .. DAILY_LIMIT_MAX

\* FindPending that skips the prospects another run's cursor holds
FindPendingUnclaimed(c, n) ==
    Limit(SelectSeq(Ids(prospect),
                    LAMBDA i : /\ prospect[i].campaign_id = c
                               /\ prospect[i].status = "pending"
                               /\ \A r \in Runs :
                                     \A k \in 1 .. Len(cursor[r]) : cursor[r][k] # i),
          n)

\* db["prospect"].find({"campaign_id": c, "status": "pending"}).limit(n)
FindPending(c, n) ==
    Limit(SelectSeq(Ids(prospect),
                    LAMBDA i : /\ prospect[i].campaign_id = c
                               /\ prospect[i].status = "pending"),
          n)

\* FindFollowups with a strict comparison against the cutoff
FindFollowupsStrict(c, cutoff, n) ==
    Limit(SelectSeq(Ids(prospect),
                    LAMBDA i : /\ prospect[i].campaign_id = c
                               /\ prospect[i].status = "requested"
                               /\ prospect[i].last_action_at # None
                               /\ prospect[i].last_action_at < cutoff),
          n)

\* db["prospect"].find({"campaign_id": c, "status": "requested",
\*                      "last_action_at": {"$lte": cutoff}}).limit(n)
FindFollowups(c, cutoff, n) ==
    Limit(SelectSeq(Ids(prospect),
                    LAMBDA i : /\ prospect[i].campaign_id = c
                               /\ prospect[i].status = "requested"
                               /\ prospect[i].last_action_at # None
                               /\ prospect[i].last_action_at <= cutoff),
          n)

\* LogDoc that records every log as a connection
LogDocConnection(c, p, type) ==
    [campaign_id |-> c, prospect_id |-> Str(p), type |-> "connection",
     status |-> "sent"]

\* the document process_automation inserts into messagelog
LogDoc(c, p, type) ==
    [campaign_id |-> c, prospect_id |-> Str(p), type |-> type, status |-> "sent"]

\* SetStatus that leaves last_action_at as it was
SetStatusOnly(p, st, t) == [prospect EXCEPT ![p].status = st]

\* update_one({"_id": p}, {"$set": {"status": st, "last_action_at": t}})
SetStatus(p, st, t) ==
    [prospect EXCEPT ![p].status = st, ![p].last_action_at = t]

\* the $set of upsert_templates applied to a matched document
SetTemplate(doc, ct, ft, t) ==
    [doc EXCEPT !.connection_template = ct, !.followup_template = ft,
                !.updated_at = t]

\* the document an upsert inserts when nothing matched: $set and $setOnInsert
InsertedTemplate(c, ct, ft, t) ==
    [campaign_id |-> c, connection_template |-> ct, followup_template |-> ft,
     updated_at |-> t, created_at |-> t]

-----------------------------------------------------------------------------
Init ==
    /\ now = 0
    /\ company = <<>>
    /\ template = <<>>
    /\ prospect = <<>>
    /\ messagelog = EmptyBag
    /\ upserting = EmptyBag
    /\ response = [op |-> "none"]
    /\ pc = [r \in Runs |-> "idle"]
    /\ campaign_id = [r \in Runs |-> NoCampaign]
    /\ daily_limit = [r \in Runs |-> 0]
    /\ processed = [r \in Runs |-> 0]
    /\ cursor = [r \in Runs |-> <<>>]
    /\ run_start = [r \in Runs |-> [pending |-> {}, logs |-> EmptyBag, limit |-> 0, at |-> 0]]
    /\ advanced = [r \in Runs |-> {}]

\* the clock advances
Tick ==
    /\ now < MaxTime
    /\ now' = now + 1
    /\ UNCHANGED <<dbvars, response, runvars>>

-----------------------------------------------------------------------------
(* HTTP handlers *)

\* POST /api/campaigns/{c}/companies/upload; rows holds each row's company
\* name, "" when the row has none.  bound caps the size of the collection.
UploadCompanies(c, content_type, rows, bound) ==
    /\ Len(company) + Len(rows) <= bound
    /\ IF content_type \notin CsvTypes
       THEN /\ response' = [op |-> "upload", status |-> 400,
                            detail |-> "Please upload a CSV file"]
            /\ UNCHANGED company
       ELSE LET named == SelectSeq(rows, LAMBDA n : n # "")
            IN  /\ company' = company \o
                       [k \in 1 .. Len(named) |->
                           [campaign_id |-> c, company_name |-> named[k]]]
                /\ response' = [op |-> "upload", status |-> 200,
                                inserted |-> Len(named)]
    /\ UNCHANGED <<now, template, prospect, messagelog, upserting, runvars>>

\* POST /api/campaigns/{c}/prospects/search with job_title_query q.
\* bound caps the size of the collection.
SearchAndCreateProspects(c, q, bound) ==
    /\ IF CompaniesOf(c) = <<>>
       THEN /\ response' = [op |-> "search", status |-> 400,
                            detail |-> "No companies found for this campaign"]
            /\ UNCHANGED prospect
       ELSE /\ Len(prospect) + Len(NewProspects(c, q)) <= bound
            /\ prospect' = prospect \o NewProspects(c, q)
            /\ response' = [op |-> "search", status |-> 200,
                            created |-> Len(NewProspects(c, q))]
    /\ UNCHANGED <<now, company, template, messagelog, upserting, runvars>>

\* GET /api/campaigns/{c}/stats
CampaignStats(c) ==
    /\ response' = [op |-> "stats", status |-> 200, campaign_id |-> c,
                    body |-> StatsOf(c)]
    /\ UNCHANGED <<now, dbvars, runvars>>

\* POST /api/templates when the filter matches a document: the store updates
\* the first match in place, then the handler returns find_one's document.
UpsertTemplates(c, ct, ft) ==
    /\ TemplatesOf(c) # <<>>
    /\ LET i == Head(TemplatesOf(c))
       IN  /\ template' = [template EXCEPT
                              ![i] = SetTemplate(template[i], ct, ft, now)]
           /\ response' = [op |-> "templates", status |-> 200,
                           body |-> template'[i]]
    /\ UNCHANGED <<now, company, prospect, messagelog, upserting, runvars>>

\* POST /api/templates when the filter matches nothing: the upsert has
\* found no document and has yet to insert one.
UpsertMatchNone(c, ct, ft) ==
    /\ TemplatesOf(c) = <<>>
    /\ BagCardinality(upserting) < MaxUpserts
    /\ upserting' = upserting (+) SetToBag({InsertedTemplate(c, ct, ft, now)})
    /\ UNCHANGED <<now, company, template, prospect, messagelog, response,
                   runvars>>

\* ... the insert of that upsert, then the handler returns find_one's document.
UpsertInsert(doc) ==
    /\ BagIn(doc, upserting)
    /\ upserting' = upserting (-) SetToBag({doc})
    /\ template' = Append(template, doc)
    /\ response' = [op |-> "templates", status |-> 200,
                    body |-> template'[Head(SelectSeq(Ids(template'),
                                 LAMBDA i : template'[i].campaign_id =
                                            doc.campaign_id))]]
    /\ UNCHANGED <<now, company, prospect, messagelog, runvars>>

\* POST /api/automation/start: adds process_automation(c) as background
\* task r, the next one unused; the tasks are those of Runs.
StartAutomation(r, c) ==
    /\ pc[r] = "idle"
    /\ \A q \in Runs : q < r => pc[q] # "idle"
    /\ pc' = [pc EXCEPT ![r] = "scheduled"]
    /\ campaign_id' = [campaign_id EXCEPT ![r] = c]
    /\ response' = [op |-> "start", status |-> 200, scheduled |-> TRUE]
    /\ UNCHANGED <<now, dbvars, daily_limit, processed, cursor>>

-----------------------------------------------------------------------------
(* process_automation, one database call per step *)

\* lines 244-253: read the template, draw daily_limit (dl is what
\* random.randint returns), query the pending prospects of the campaign
Begin(r, dl) ==
    /\ pc[r] = "scheduled"
    /\ dl \in DailyLimits
    /\ daily_limit' = [daily_limit EXCEPT ![r] = dl]
    /\ cursor' = [cursor EXCEPT ![r] = FindPending(campaign_id[r], dl)]
    /\ processed' = [processed EXCEPT ![r] = 0]
    /\ pc' = [pc EXCEPT ![r] = "connect"]
    /\ UNCHANGED <<now, dbvars, response, campaign_id>>

\* lines 254-268: next document of the cursor; insert its connection log
ConnectLog(r) ==
    /\ pc[r] = "connect"
    /\ cursor[r] # <<>>
    /\ processed[r] < daily_limit[r]
    /\ messagelog' = messagelog (+)
           SetToBag({LogDoc(campaign_id[r], Head(cursor[r]), "connection")})
    /\ pc' = [pc EXCEPT ![r] = "connect_update"]
    /\ UNCHANGED <<now, company, template, prospect, upserting, response,
                   campaign_id, daily_limit, processed, cursor>>

\* lines 269-270: update the prospect, count it
ConnectUpdate(r) ==
    /\ pc[r] = "connect_update"
    /\ prospect' = SetStatus(Head(cursor[r]), "requested", now)
    /\ processed' = [processed EXCEPT ![r] = @ + 1]
    /\ cursor' = [cursor EXCEPT ![r] = Tail(@)]
    /\ pc' = [pc EXCEPT ![r] = "connect"]
    /\ UNCHANGED <<now, company, template, messagelog, upserting, response,
                   campaign_id, daily_limit>>

\* lines 254-278: the first loop ends; compute the cutoff and query the
\* prospects due a follow-up.  daily_limit and processed are not read again.
FindDue(r) ==
    /\ pc[r] = "connect"
    /\ cursor[r] = <<>> \/ processed[r] >= daily_limit[r]
    /\ LET three_days_ago == now - FOLLOWUP_DAYS
       IN  cursor' = [cursor EXCEPT ![r] =
                         FindFollowups(campaign_id[r], three_days_ago,
                                       daily_limit[r])]
    /\ daily_limit' = [daily_limit EXCEPT ![r] = 0]
    /\ processed' = [processed EXCEPT ![r] = 0]
    /\ pc' = [pc EXCEPT ![r] = "followup"]
    /\ UNCHANGED <<now, dbvars, response, campaign_id>>

\* lines 279-290: next document of the cursor; insert its follow-up log
FollowupLog(r) ==
    /\ pc[r] = "followup"
    /\ cursor[r] # <<>>
    /\ messagelog' = messagelog (+)
           SetToBag({LogDoc(campaign_id[r], Head(cursor[r]), "followup")})
    /\ pc' = [pc EXCEPT ![r] = "followup_update"]
    /\ UNCHANGED <<now, company, template, prospect, upserting, response,
                   campaign_id, daily_limit, processed, cursor>>

\* line 291: update the prospect
FollowupUpdate(r) ==
    /\ pc[r] = "followup_update"
    /\ prospect' = SetStatus(Head(cursor[r]), "followed_up", now)
    /\ cursor' = [cursor EXCEPT ![r] = Tail(@)]
    /\ pc' = [pc EXCEPT ![r] = "followup"]
    /\ UNCHANGED <<now, company, template, messagelog, upserting, response,
                   campaign_id, daily_limit, processed>>

\* the second loop ends and process_automation returns; its locals are gone
Finish(r) ==
    /\ pc[r] = "followup"
    /\ cursor[r] = <<>>
    /\ pc' = [pc EXCEPT ![r] = "done"]
    /\ UNCHANGED <<now, dbvars, response, campaign_id, daily_limit, processed,
                   cursor>>

\* a database call of the run raises; nothing catches it and the task ends
Fail(r) ==
    /\ pc[r] \in {"scheduled", "connect", "connect_update", "followup",
                  "followup_update"}
    /\ pc' = [pc EXCEPT ![r] = "failed"]
    /\ daily_limit' = [daily_limit EXCEPT ![r] = 0]
    /\ processed' = [processed EXCEPT ![r] = 0]
    /\ cursor' = [cursor EXCEPT ![r] = <<>>]
    /\ UNCHANGED <<now, dbvars, response, campaign_id>>

-----------------------------------------------------------------------------
(* History of a run, kept beside the program's state *)

\* the prospects of campaign c that are pending
PendingSet(c) ==
    {i \in 1 .. Len(prospect) :
        prospect[i].campaign_id = c /\ prospect[i].status = "pending"}

\* Begin, remembering what the run started from
BeginH(r, dl) ==
    /\ Begin(r, dl)
    /\ run_start' = [run_start EXCEPT ![r] =
                        [pending |-> PendingSet(campaign_id[r]),
                         logs |-> messagelog, limit |-> dl, at |-> now]]
    /\ UNCHANGED advanced

\* ConnectUpdate, remembering the prospect when the update found it pending
ConnectUpdateH(r) ==
    /\ ConnectUpdate(r)
    /\ advanced' = [advanced EXCEPT ![r] =
                       IF prospect[Head(cursor[r])].status = "pending"
                       THEN @ \cup {Head(cursor[r])} ELSE @]
    /\ UNCHANGED run_start

-----------------------------------------------------------------------------
(* Specifications *)

\* the draws of daily_limit tried where fewer than DAILY_LIMIT_MIN prospects exist
SomeLimits == {DAILY_LIMIT_MIN, DAILY_LIMIT_MAX}

\* no run is in progress
Quiet == \A q \in Runs : pc[q] \in {"idle", "done", "failed"}

Engine(limits) ==
    \E r \in Runs :
        \/ \E dl \in limits : Begin(r, dl)
        \/ ConnectLog(r)
        \/ ConnectUpdate(r)
        \/ FindDue(r)
        \/ FollowupLog(r)
        \/ FollowupUpdate(r)
        \/ Finish(r)

(* Spec: concurrent runs that may fail, over a small store *)

UploadOne == \E c \in Campaigns : UploadCompanies(c, "text/csv", <<"Acme">>, MaxCompanies)

SearchOne == \E c \in Campaigns : SearchAndCreateProspects(c, "CEO", MaxProspects)

Start == \E r \in Runs, c \in Campaigns : StartAutomation(r, c)

Failure == \E r \in Runs : Fail(r)

Next ==
    \/ Tick /\ UNCHANGED histvars
    \/ UploadOne /\ UNCHANGED histvars
    \/ SearchOne /\ UNCHANGED histvars
    \/ Start /\ UNCHANGED histvars
    \/ Engine(SomeLimits) /\ UNCHANGED histvars
    \/ Failure /\ UNCHANGED histvars

Spec == Init /\ [][Next]_vars

(* SpecApi: the handlers on varied inputs, called between runs that go one *)
(* at a time; the clock advances between runs                              *)

\* the uploads tried: one or two rows, a row may lack its company name
UploadRows ==
    {<<n>> : n \in CompanyNames \cup {""}} \cup {<<"Acme", "">>, <<"", "Globex">>}

Upload ==
    \E c \in Campaigns, t \in ContentTypes, rows \in UploadRows :
        UploadCompanies(c, t, rows, ApiCompanies)

Search ==
    \E c \in Campaigns, q \in JobTitles :
        SearchAndCreateProspects(c, q, ApiProspects)

StartSolo == Quiet /\ Start

TickQuiet == Quiet /\ Tick

NextApi ==
    \/ TickQuiet /\ UNCHANGED histvars
    \/ Quiet /\ Upload /\ UNCHANGED histvars
    \/ Quiet /\ Search /\ UNCHANGED histvars
    \/ StartSolo /\ UNCHANGED histvars
    \/ Engine({DAILY_LIMIT_MIN}) /\ UNCHANGED histvars

SpecApi == Init /\ [][NextApi]_vars

(* SpecRun: runs one at a time over a small store, the clock advancing at  *)
(* any step, with the runs' history and the statistics read between runs   *)

SearchRun == \E c \in Campaigns : SearchAndCreateProspects(c, "CEO", RunProspects)

Stats == \E c \in Campaigns : CampaignStats(c)

EngineH(limits) ==
    \E r \in Runs :
        \/ \E dl \in limits : BeginH(r, dl)
        \/ ConnectLog(r) /\ UNCHANGED histvars
        \/ ConnectUpdateH(r)
        \/ FindDue(r) /\ UNCHANGED histvars
        \/ FollowupLog(r) /\ UNCHANGED histvars
        \/ FollowupUpdate(r) /\ UNCHANGED histvars
        \/ Finish(r) /\ UNCHANGED histvars

NextRun ==
    \/ Tick /\ UNCHANGED histvars
    \/ Quiet /\ UploadOne /\ UNCHANGED histvars
    \/ Quiet /\ SearchRun /\ UNCHANGED histvars
    \/ Quiet /\ Stats /\ UNCHANGED histvars
    \/ StartSolo /\ UNCHANGED histvars
    \/ EngineH(SomeLimits)

SpecRun == Init /\ [][NextRun]_vars

(* SpecCap: one campaign with more prospects than a run may process, runs *)
(* one at a time, draws of daily_limit around the number of prospects, the *)
(* clock advancing between runs, with the runs' history                    *)

CapRows == [k \in 1 .. CapCompanies |-> "Acme"]

UploadCap == UploadCompanies("c1", "text/csv", CapRows, CapCompanies)

SearchCap ==
    SearchAndCreateProspects("c1", "CEO", PROSPECTS_PER_COMPANY * CapCompanies)

\* the draws of daily_limit tried: below, at and above the number of prospects
CapLimits == {DAILY_LIMIT_MIN, DAILY_LIMIT_MIN + 1, DAILY_LIMIT_MAX}

NextCap ==
    \/ TickQuiet /\ UNCHANGED histvars
    \/ UploadCap /\ UNCHANGED histvars
    \/ SearchCap /\ UNCHANGED histvars
    \/ StartSolo /\ UNCHANGED histvars
    \/ EngineH(CapLimits)

SpecCap == Init /\ [][NextCap]_vars

(* SpecTemplates: upserts of templates, which may overlap *)

\* the payloads tried: (connection_template, followup_template)
Payloads == {<<"A", "B">>, <<"B", "A">>}

Upsert ==
    \E c \in Campaigns, pl \in Payloads :
        \/ UpsertTemplates(c, pl[1], pl[2])
        \/ UpsertMatchNone(c, pl[1], pl[2])

UpsertFinish == \E doc \in BagToSet(upserting) : UpsertInsert(doc)

NextTemplates ==
    \/ Tick /\ UNCHANGED histvars
    \/ Upsert /\ UNCHANGED histvars
    \/ UpsertFinish /\ UNCHANGED histvars

SpecTemplates == Init /\ [][NextTemplates]_vars

-----------------------------------------------------------------------------
(* Vocabulary of the properties, written on the state alone *)

ProspectIds == 1 .. Len(prospect)

\* the number of messagelog documents of the given type that reference p
LogsOf(log, p, type) ==
    LET ds == {d \in BagToSet(log) : d.prospect_id = <<"oid", p>> /\ d.type = type}
        RECURSIVE Sum(_)
        Sum(S) == IF S = {} THEN 0
                  ELSE LET d == CHOOSE x \in S : TRUE
                       IN  CopiesIn(d, log) + Sum(S \ {d})
    IN  Sum(ds)

\* position of a status on pending -> requested -> followed_up
Rank(st) == IF st = "pending" THEN 0 ELSE IF st = "requested" THEN 1 ELSE 2

\* run r takes the step that leaves position from for position to
Step(r, from, to) == pc[r] = from /\ pc'[r] = to

-----------------------------------------------------------------------------
(* Properties checked under Spec *)

\* C4: over any interleaving of handlers and engine runs no prospect's status
\* moves backwards along pending -> requested -> followed_up, and existing
\* prospects change status only in a step of the engine.
C4_StatusMonotonic ==
    [][\A p \in ProspectIds :
          /\ Rank(prospect'[p].status) >= Rank(prospect[p].status)
          /\ prospect'[p].status # prospect[p].status =>
                \E r \in Runs : Step(r, "connect_update", "connect")
                                \/ Step(r, "followup_update", "followup")]_vars

\* C9: nothing keeps a run from the prospects another run is processing: a
\* trigger is accepted whatever the other tasks do, and the query of a run
\* returns every pending prospect of its campaign (there are fewer than
\* daily_limit), also those still in another run's cursor.
C9_NoMutualExclusion ==
    [][/\ \A r \in Runs :
             Step(r, "scheduled", "connect") =>
                {cursor'[r][k] : k \in 1 .. Len(cursor'[r])} =
                   {p \in ProspectIds : /\ prospect[p].campaign_id = campaign_id[r]
                                        /\ prospect[p].status = "pending"}
       /\ \A r \in Runs :
             (pc[r] = "idle" /\ \A q \in Runs : q < r => pc[q] # "idle") =>
                \A c \in Campaigns : ENABLED StartAutomation(r, c)]_vars

\* C9 witness: both runs have ended, two connection logs reference the same
\* prospect, and it is in status requested
C9_DoubleConnection ==
    /\ \A r \in Runs : pc[r] = "done"
    /\ \E p \in ProspectIds :
          /\ LogsOf(messagelog, p, "connection") = 2
          /\ prospect[p].status = "requested"

\* C10: every prospect in status requested or followed_up is referenced by a
\* connection log, every prospect in status followed_up by a follow-up log,
\* every log has status sent, and no log is ever changed or removed.
C10_StatusBackedByLog ==
    /\ [](/\ \A p \in ProspectIds :
               /\ prospect[p].status \in {"requested", "followed_up"} =>
                     LogsOf(messagelog, p, "connection") >= 1
               /\ prospect[p].status = "followed_up" =>
                     LogsOf(messagelog, p, "followup") >= 1
          /\ \A d \in BagToSet(messagelog) : d.status = "sent")
    /\ [][\A d \in BagToSet(messagelog) :
             CopiesIn(d, messagelog') >= CopiesIn(d, messagelog)]_vars

\* C10 witness: a run failed between inserting a log and updating the
\* prospect, while another prospect has been followed up
C10_FailedRunAndFollowedUp ==
    /\ \E r \in Runs : pc[r] = "failed"
    /\ \E p \in ProspectIds :
          /\ prospect[p].status = "pending"
          /\ LogsOf(messagelog, p, "connection") >= 1
    /\ \E p \in ProspectIds : prospect[p].status = "followed_up"

-----------------------------------------------------------------------------
(* Properties checked under SpecApi *)

\* the positions of the companies of campaign c
CompanyIds(c) == {i \in 1 .. Len(company) : company[i].campaign_id = c}

\* C5: a search on a campaign with N >= 1 companies appends exactly 2N
\* prospects, two for each company and carrying its name, returns
\* {created: 2N}, every new prospect is pending, has no last_action_at and has
\* the requested job title, and the prospects that existed are unchanged.
C5_SearchCreatesTwoPerCompany ==
    [][\A c \in Campaigns, q \in JobTitles :
          (/\ response'.op = "search"
           /\ CompanyIds(c) # {}
           /\ SearchAndCreateProspects(c, q, ApiProspects)) =>
             LET N == Cardinality(CompanyIds(c))
                 new == (Len(prospect) + 1) .. Len(prospect')
             IN  /\ Len(prospect') = Len(prospect) + 2 * N
                 /\ response'.status = 200
                 /\ response'.created = 2 * N
                 /\ \A i \in ProspectIds : prospect'[i] = prospect[i]
                 /\ \A k \in new :
                       /\ prospect'[k].campaign_id = c
                       /\ prospect'[k].status = "pending"
                       /\ prospect'[k].last_action_at = None
                       /\ prospect'[k].job_title = q
                 /\ \A j \in CompanyIds(c) :
                       LET before == Cardinality({i \in CompanyIds(c) : i < j})
                       IN  \A k \in {Len(prospect) + 2 * before + 1,
                                     Len(prospect) + 2 * before + 2} :
                              prospect'[k].company_name = company[j].company_name
                 /\ UNCHANGED <<company, template, messagelog>>]_vars

\* C5 witness: a search on a campaign of two differently named companies
\* returned {created: 4}
C5_SearchedTwoCompanies ==
    /\ response.op = "search"
    /\ response.status = 200
    /\ response.created = 4
    /\ Len(prospect) = 4
    /\ prospect[1].company_name # prospect[3].company_name
    /\ \A k \in 1 .. 4 : prospect[k].status = "pending"

\* C6: a search on a campaign without companies returns 400 "No companies
\* found for this campaign" and leaves every collection as it was.
C6_SearchWithoutCompanies ==
    [][\A c \in Campaigns, q \in JobTitles :
          (/\ response'.op = "search"
           /\ CompanyIds(c) = {}
           /\ SearchAndCreateProspects(c, q, ApiProspects)) =>
             /\ response'.status = 400
             /\ response'.detail = "No companies found for this campaign"
             /\ UNCHANGED <<company, template, prospect, messagelog>>]_vars

\* C6 witness: a search was refused while the other campaign has companies
\* and prospects
C6_SearchRefused ==
    /\ response.op = "search"
    /\ response.status = 400
    /\ company # <<>>
    /\ prospect # <<>>

-----------------------------------------------------------------------------
(* Properties checked under SpecRun *)

\* the number of messagelog documents of the given type and status sent
SentLogs(log, type) ==
    LET ds == {d \in BagToSet(log) : d.type = type /\ d.status = "sent"}
        RECURSIVE Sum(_)
        Sum(S) == IF S = {} THEN 0
                  ELSE LET d == CHOOSE x \in S : TRUE
                       IN  CopiesIn(d, log) + Sum(S \ {d})
    IN  Sum(ds)

\* of the prospects pending when run r started, the first daily_limit
Selected(r) ==
    {p \in run_start[r].pending :
        Cardinality({q \in run_start[r].pending : q < p}) < run_start[r].limit}

\* the prospects due a follow-up when run r computes its cutoff now
Due(r) ==
    {p \in ProspectIds : /\ prospect[p].campaign_id = campaign_id[r]
                         /\ prospect[p].status = "requested"
                         /\ prospect[p].last_action_at # None
                         /\ prospect[p].last_action_at <= now - 3}

\* the follow-up query of run r returns prospects that are due, all of them
\* when they are at most daily_limit and daily_limit of them otherwise
GateHolds(r) ==
    Step(r, "connect", "followup") =>
       LET chosen == {cursor'[r][k] : k \in 1 .. Len(cursor'[r])}
       IN  /\ chosen \subseteq Due(r)
           /\ Cardinality(Due(r)) <= daily_limit[r] => chosen = Due(r)
           /\ Cardinality(Due(r)) > daily_limit[r] =>
                 Cardinality(chosen) = daily_limit[r]

\* the follow-up update of run r moves the selected prospect to followed_up
\* and leaves every other prospect as it is
FollowupHolds(r) ==
    Step(r, "followup_update", "followup") =>
       /\ prospect'[Head(cursor[r])].status = "followed_up"
       /\ \A p \in ProspectIds \ {Head(cursor[r])} : prospect'[p] = prospect[p]

\* C1 as claimed: when a run ends, every prospect that was pending when it
\* started, up to daily_limit of them, has status requested, has
\* last_action_at set, and the run added exactly one sent connection log
\* referencing it.
C1_PendingEndRequested ==
    [][\A r \in Runs :
          Step(r, "followup", "done") =>
             \A p \in Selected(r) :
                /\ prospect'[p].status = "requested"
                /\ prospect'[p].last_action_at # None
                /\ LogsOf(messagelog', p, "connection") =
                      LogsOf(run_start[r].logs, p, "connection") + 1]_vars

\* C1 as amended: when a run ends, every prospect that was pending when it
\* started, up to daily_limit of them, has status requested or followed_up,
\* requested if the run took less than 3 days; it has last_action_at set,
\* and the run added exactly one sent connection log referencing it.
C1_PendingAdvanced ==
    [][\A r \in Runs :
          Step(r, "followup", "done") =>
             \A p \in Selected(r) :
                /\ prospect'[p].status \in {"requested", "followed_up"}
                /\ now - run_start[r].at < 3 => prospect'[p].status = "requested"
                /\ prospect'[p].last_action_at # None
                /\ LogsOf(messagelog', p, "connection") =
                      LogsOf(run_start[r].logs, p, "connection") + 1
                /\ \A d \in BagToSet(messagelog') : d.status = "sent"]_vars

\* C1 witness: a run that started with two pending prospects, after an
\* earlier run had left its logs, has ended within the day; both are
\* requested, each with one connection log
C1_RunEnded ==
    \E r \in Runs :
       /\ pc[r] = "done"
       /\ now = run_start[r].at
       /\ run_start[r].logs # EmptyBag
       /\ Cardinality(run_start[r].pending) = 2
       /\ \A p \in Selected(r) :
             /\ prospect[p].status = "requested"
             /\ prospect[p].last_action_at = now
             /\ LogsOf(messagelog, p, "connection") = 1

\* C2 as claimed: the follow-up query is gated by the cutoff, the follow-up
\* update moves the selected prospect to followed_up and no other, and no
\* prospect the run moved from pending to requested is selected by it.
C2_FollowupTimeGated ==
    [][\A r \in Runs :
          /\ GateHolds(r)
          /\ FollowupHolds(r)
          /\ Step(r, "connect", "followup") =>
                \A k \in 1 .. Len(cursor'[r]) : cursor'[r][k] \notin advanced[r]]_vars

\* C2 as amended: the same gate, and a prospect the run moved from pending
\* to requested is selected by it only when 3 days or more have passed
\* since the run started.
C2_FollowupGate ==
    [][\A r \in Runs :
          /\ GateHolds(r)
          /\ FollowupHolds(r)
          /\ Step(r, "connect", "followup") =>
                \A k \in 1 .. Len(cursor'[r]) :
                   cursor'[r][k] \in advanced[r] => now - run_start[r].at >= 3]_vars

\* C2 witness: a run is following up a prospect that is due while a prospect
\* requested less than 3 days ago is not in its cursor
C2_GateSeparates ==
    \E r \in Runs :
       /\ pc[r] = "followup"
       /\ cursor[r] # <<>>
       /\ prospect[Head(cursor[r])].last_action_at = now - 3
       /\ \E p \in ProspectIds :
             /\ prospect[p].campaign_id = campaign_id[r]
             /\ prospect[p].status = "requested"
             /\ prospect[p].last_action_at = now - 2
             /\ \A k \in 1 .. Len(cursor[r]) : cursor[r][k] # p

\* C8: the statistics of a campaign are the number of its prospects and the
\* numbers of them in status requested, followed_up, accepted, replied and
\* pending; the call changes nothing.
C8_StatsCountByStatus ==
    [][\A c \in Campaigns :
          (response'.op = "stats" /\ CampaignStats(c)) =>
             LET n(st) == Cardinality({p \in ProspectIds :
                                         /\ prospect[p].campaign_id = c
                                         /\ prospect[p].status = st})
             IN  /\ response'.body =
                       [total |-> Cardinality({p \in ProspectIds :
                                                  prospect[p].campaign_id = c}),
                        requests_sent |-> n("requested"),
                        followups_sent |-> n("followed_up"),
                        connections_accepted |-> n("accepted"),
                        replies_received |-> n("replied"),
                        pending |-> n("pending")]
                 /\ UNCHANGED <<now, dbvars, runvars>>]_vars

\* C8 witness: the statistics of a campaign with two pending, one requested
\* and one followed-up prospect, while the other campaign has none
C8_StatsOfFour ==
    /\ response.op = "stats"
    /\ response.body = [total |-> 4, requests_sent |-> 1, followups_sent |-> 1,
                        connections_accepted |-> 0, replies_received |-> 0,
                        pending |-> 2]

-----------------------------------------------------------------------------
(* Property checked under SpecCap *)

\* C7: a run draws daily_limit in 10..20; neither of its queries returns more
\* than daily_limit prospects; when it ends it has added at most daily_limit
\* connection logs and at most daily_limit follow-up logs, has moved at most
\* daily_limit prospects out of pending, and the prospects that were pending
\* beyond the first daily_limit are still pending.
C7_DailyLimitCaps ==
    [][\A r \in Runs :
          /\ Step(r, "scheduled", "connect") =>
                /\ daily_limit'[r] \in 10 .. 20
                /\ Len(cursor'[r]) <= daily_limit'[r]
          /\ Step(r, "connect", "followup") => Len(cursor'[r]) <= daily_limit[r]
          /\ Step(r, "followup", "done") =>
                LET L == run_start[r].limit
                IN  /\ SentLogs(messagelog', "connection") -
                          SentLogs(run_start[r].logs, "connection") <= L
                    /\ SentLogs(messagelog', "followup") -
                          SentLogs(run_start[r].logs, "followup") <= L
                    /\ Cardinality({p \in run_start[r].pending :
                                       prospect'[p].status # "pending"}) <= L
                    /\ \A p \in run_start[r].pending \ Selected(r) :
                          prospect'[p].status = "pending"]_vars

\* C7 witness: a run that started with more pending prospects than its
\* daily_limit has ended and has left the excess pending
C7_ExcessStaysPending ==
    \E r \in Runs :
       /\ pc[r] = "done"
       /\ Cardinality(run_start[r].pending) > run_start[r].limit
       /\ Cardinality({p \in run_start[r].pending : prospect[p].status = "pending"})
             = Cardinality(run_start[r].pending) - run_start[r].limit

-----------------------------------------------------------------------------
(* Property checked under SpecTemplates *)

\* C3: at most one template document exists per campaign identifier, also
\* when upserts for the same campaign overlap.
C3_OneTemplatePerCampaign ==
    \A c \in Campaigns :
       Cardinality({i \in 1 .. Len(template) : template[i].campaign_id = c}) <= 1

=============
